---- MODULE Spec2Model ----
(***************************************************************************)
(* Model of sheeprl/data/buffers.py: ReplayBuffer and                      *)
(* SequentialReplayBuffer.  The cursor state (_pos, _full), the table      *)
(* (_buf, one row per slot, shared by all environments) and the three      *)
(* operations add, ReplayBuffer.sample and SequentialReplayBuffer.sample.  *)
(* SequentialReplayBuffer inherits add and the cursor state unchanged, so  *)
(* one buffer state serves both samplers.                                  *)
(*                                                                         *)
(* Records are named by the order in which they were accepted: the i-th    *)
(* record ever stored has id i (1, 2, ...); 0 marks a slot never written.  *)
(* A row of a batch is the same record for every environment column, so    *)
(* the table is a function from slots to record ids.                       *)
(***************************************************************************)
EXTENDS Integers, Sequences, FiniteSets, TLC

\* ---- bounds of the model ----
MaxCap == 3        \* buffer_size ranges over 1..MaxCap
MaxEnvs == 2       \* n_envs ranges over 1..MaxEnvs
MaxLen == 6        \* longest batch handed to add
MaxTotal == 7      \* records accepted over a whole run
MaxBatch == 2      \* batch_size ranges over 0..MaxBatch
MaxNSamples == 2   \* n_samples ranges over 0..MaxNSamples
MaxSeqLen == 4     \* sequence_length ranges over 1..MaxSeqLen

VARIABLES
    buffer_size,   \* self._buffer_size
    n_envs,        \* self._n_envs
    pos,           \* self._pos
    full,          \* self._full
    buf,           \* self._buf: slot -> id of the record it holds (0: never written)
    total,         \* history: number of records accepted by successful add calls
    only_short,    \* history: every add call so far had data_len < buffer_size
    last           \* the last call: its arguments and what it returned or raised

vars == <<buffer_size, n_envs, pos, full, buf, total, only_short, last>>

Slots == 0 .. (buffer_size - 1)

Min(a, b) == IF a < b THEN a ELSE b
Max(a, b) == IF a > b THEN a ELSE b

\* Python range(a, b) as a sequence: a, a+1, ..., b-1 (empty when b <= a)
Range(a, b) == IF b > a THEN [i \in 1 .. (b - a) |-> a + i - 1] ELSE << >>

\* Python s[-k:] for k > 0: the trailing k items, the whole of s when k >= len(s)
Suffix(s, k) == SubSeq(s, Max(0, Len(s) - k) + 1, Len(s))

SeqToSet(s) == { s[i] : i \in 1 .. Len(s) }

\* the record of a call; every call fills the fields it has
Call(op, err) ==
    [op |-> op, err |-> err, data_len |-> 0, batch_dim |-> 0,
     sample_next_obs |-> FALSE, sequence_length |-> 0,
     n_idxes |-> 0, n_rows |-> 0,
     valid_idxes |-> << >>, batch_idxes |-> << >>, idxes |-> << >>,
     next_idxes |-> << >>, env_idxes |-> << >>]

\* ---- __init__ ----
Init ==
    /\ buffer_size \in 1 .. MaxCap
    /\ n_envs \in 1 .. MaxEnvs
    /\ pos = 0
    /\ full = FALSE
    /\ buf = [s \in 0 .. (buffer_size - 1) |-> 0]
    /\ total = 0
    /\ only_short = TRUE
    /\ last = Call("init", "none")

\* ---- add ----
\* next_pos going back to slot 0 whenever the write reaches the end of the table
next_pos_reset(p, data_len, C) == IF p + data_len >= C THEN 0 ELSE p + data_len

next_pos(p, data_len, C) == (p + data_len) % C

\* add_idxes with the two halves of a wrapping write in the wrong order
add_idxes_swapped(p, f, data_len, C) ==
    LET np == next_pos(p, data_len, C) IN
    IF np < p \/ (data_len >= C /\ ~f)
    THEN Range(0, np) \o Range(p, C)
    ELSE Range(p, np)

add_idxes(p, f, data_len, C) ==
    LET np == next_pos(p, data_len, C) IN
    IF np < p \/ (data_len >= C /\ ~f)
    THEN Range(p, C) \o Range(0, np)
    ELSE Range(p, np)

data_to_store(data, C, np) ==
    IF Len(data) > C THEN Suffix(data, C + np) ELSE data

\* full_after assigning the comparison instead of only ever setting the flag
full_after_assigned(p, f, data_len, C) == p + data_len >= C

\* full_after with a strict comparison
full_after_strict(p, f, data_len, C) == f \/ (p + data_len > C)

full_after(p, f, data_len, C) == f \/ (p + data_len >= C)

\* self._buf[idxes, :] = data_to_store.  The assignment needs one destination
\* row per source row.  A slot named once receives its row; a slot named
\* twice (idxes lists a slot at most twice) receives either of its two rows:
\* torch leaves an indexed assignment with repeated indices undefined.
Writers(ix, s) == { j \in 1 .. Len(ix) : ix[j] = s }
FirstWriter(ix, s) == CHOOSE j \in Writers(ix, s) : \A k \in Writers(ix, s) : j <= k
LastWriter(ix, s) == CHOOSE j \in Writers(ix, s) : \A k \in Writers(ix, s) : j >= k
Written(b, ix, rows, pick) ==
    [s \in DOMAIN b |->
        IF Writers(ix, s) = {} THEN b[s]
        ELSE IF pick[s] THEN rows[LastWriter(ix, s)] ELSE rows[FirstWriter(ix, s)]]

\* cursor_after_raise with the cursor advanced before the write
cursor_after_raise_early(p, np) == np

\* the write of line 119 raises before line 122 is reached: the cursor stays
cursor_after_raise(p, np) == p

\* isinstance checks of lines 88-91 and the rank check of lines 92-96
add_TypeError ==
    /\ last' = Call("add", "TypeError")
    /\ UNCHANGED <<buffer_size, n_envs, pos, full, buf, total, only_short>>

add_RankError ==
    /\ last' = Call("add", "RuntimeError_rank")
    /\ UNCHANGED <<buffer_size, n_envs, pos, full, buf, total, only_short>>

add(data_len) ==
    LET data == [i \in 1 .. data_len |-> total + i]
        np == next_pos(pos, data_len, buffer_size)
        ix == add_idxes(pos, full, data_len, buffer_size)
        rows == data_to_store(data, buffer_size, np)
        call == [Call("add", "none") EXCEPT !.data_len = data_len,
                     !.n_idxes = Len(ix), !.n_rows = Len(rows)]
    IN
    /\ total + data_len <= MaxTotal
    /\ only_short' = (only_short /\ data_len < buffer_size)
    /\ UNCHANGED <<buffer_size, n_envs>>
    /\ IF Len(ix) # Len(rows)
       THEN \* the write of line 119 raises: cursor and flag are not reached
            /\ last' = [call EXCEPT !.err = "RuntimeError_write"]
            /\ pos' = cursor_after_raise(pos, np)
            /\ UNCHANGED <<full, buf, total>>
       ELSE IF data_len = 0
       THEN \* nothing to write: idxes is an empty float tensor, which torch may
            \* refuse as an index; when it is accepted lines 120-122 change nothing
            /\ \E e \in {"none", "IndexError"} : last' = [call EXCEPT !.err = e]
            /\ UNCHANGED <<pos, full, buf, total>>
       ELSE \E pick \in [Slots -> BOOLEAN] :
            /\ buf' = Written(buf, ix, rows, pick)
            /\ full' = full_after(pos, full, data_len, buffer_size)
            /\ pos' = np
            /\ total' = total + data_len
            /\ last' = call

\* ---- ReplayBuffer.sample ----
\* is_empty looking at the cursor alone
is_empty_pos_only(p, f) == p = 0

is_empty(p, f) == ~f /\ p = 0

\* sample_first_range_end forgetting the companion read
sample_first_range_end_no_next(p, sample_next_obs) == p

sample_first_range_end(p, sample_next_obs) == IF sample_next_obs THEN p - 1 ELSE p

second_range_end(first_range_end, C) ==
    IF first_range_end >= 0 THEN C ELSE C + first_range_end

valid_idxes(p, first_range_end, C) ==
    Range(0, first_range_end) \o Range(p, second_range_end(first_range_end, C))

\* max_pos_to_sample forgetting the companion read
max_pos_to_sample_no_next(p, sample_next_obs) == p

max_pos_to_sample(p, sample_next_obs) == IF sample_next_obs THEN p - 1 ELSE p

\* A call draws its n items alike and independently of each other; the record
\* of the call keeps the first two of them.
Observed(n) == Min(n, 2)

\* torch.randint(0, len(valid), size=(n,)) used as an index into valid:
\* items of valid, drawn with replacement
Draws(valid, n) == [1 .. Observed(n) -> SeqToSet(valid)]

\* torch.randint(0, self.n_envs, size=(n,))
EnvDraws(n) == [1 .. Observed(n) -> 0 .. (n_envs - 1)]

\* table_after_get_samples with the companion rows stored into self._buf
table_after_get_samples_in_place(b, batch_idxes, sample_next_obs) ==
    IF sample_next_obs
    THEN [s \in DOMAIN b |->
            IF s \in SeqToSet(batch_idxes) THEN b[(s + 1) % buffer_size] ELSE b[s]]
    ELSE b

\* lines 171-173: self._buf[batch_idxes, env_idxes] gathers a copy, and the
\* companion column is set on that copy: self._buf is as it was
table_after_get_samples(b, batch_idxes, sample_next_obs) == b

\* ReplayBuffer._get_samples: the rows read and, with sample_next_obs, the
\* companion rows (batch_idxes + 1) % buffer_size of the same environments
get_samples(call, batch_idxes, envs, sample_next_obs) ==
    [call EXCEPT !.batch_idxes = batch_idxes,
                 !.idxes = [i \in 1 .. Len(batch_idxes) |-> <<batch_idxes[i]>>],
                 !.next_idxes = IF sample_next_obs
                                THEN [i \in 1 .. Len(batch_idxes) |->
                                         (batch_idxes[i] + 1) % buffer_size]
                                ELSE << >>,
                 !.env_idxes = envs]

sample(batch_size, sample_next_obs) ==
    LET call == [Call("sample", "none") EXCEPT !.batch_dim = batch_size,
                     !.sample_next_obs = sample_next_obs]
    IN
    /\ UNCHANGED <<buffer_size, n_envs, pos, full, total, only_short>>
    /\ IF batch_size <= 0
       THEN last' = [call EXCEPT !.err = "ValueError_batch"] /\ UNCHANGED buf
       ELSE IF is_empty(pos, full)
       THEN last' = [call EXCEPT !.err = "ValueError_empty"] /\ UNCHANGED buf
       ELSE IF full
       THEN LET valid == valid_idxes(pos, sample_first_range_end(pos, sample_next_obs),
                                     buffer_size)
            IN IF Len(valid) = 0
               THEN \* torch.randint(0, 0, ...) raises
                    last' = [call EXCEPT !.err = "RuntimeError_randint"] /\ UNCHANGED buf
               ELSE \E batch_idxes \in Draws(valid, batch_size), envs \in EnvDraws(batch_size) :
                    /\ last' = get_samples([call EXCEPT !.valid_idxes = valid],
                                           batch_idxes, envs, sample_next_obs)
                    /\ buf' = table_after_get_samples(buf, batch_idxes, sample_next_obs)
       ELSE LET m == max_pos_to_sample(pos, sample_next_obs)
            IN IF m = 0
               THEN last' = [call EXCEPT !.err = "RuntimeError_next"] /\ UNCHANGED buf
               ELSE \E batch_idxes \in Draws(Range(0, m), batch_size),
                       envs \in EnvDraws(batch_size) :
                    /\ last' = get_samples([call EXCEPT !.valid_idxes = Range(0, m)],
                                           batch_idxes, envs, sample_next_obs)
                    /\ buf' = table_after_get_samples(buf, batch_idxes, sample_next_obs)

\* ---- SequentialReplayBuffer.sample ----
\* seq_first_range_end one slot short
seq_first_range_end_short(p, sequence_length) == p - sequence_length

seq_first_range_end(p, sequence_length) == p - sequence_length + 1

\* line 238: the window is longer than the data collected so far
too_long_not_full(p, f, sequence_length) == ~f /\ p - sequence_length + 1 < 1

\* line 240: the window is longer than the table
\* too_long_full testing the flag with the wrong polarity
too_long_full_negated(f, sequence_length, C) == ~f /\ sequence_length > C

too_long_full(f, sequence_length, C) == f /\ sequence_length > C

\* line 257: fewer valid starts than windows asked for (full branch only)
too_few_starts(valid, batch_dim) == Len(valid) < batch_dim

\* lines 268-269: the slots of the windows, row by row
window_idxes(start_idxes, sequence_length, C) ==
    [i \in 1 .. Len(start_idxes) |->
        [k \in 1 .. sequence_length |-> (start_idxes[i] + (k - 1)) % C]]

\* SequentialReplayBuffer._get_samples: one environment per window, repeated
\* over the steps of the window, flattened window by window
\* seq_env_idxes tiling the drawn environments instead of repeating each one
seq_env_idxes_tiled(envs, sequence_length) ==
    [j \in 1 .. (Len(envs) * sequence_length) |-> envs[((j - 1) % Len(envs)) + 1]]

seq_env_idxes(envs, sequence_length) ==
    [j \in 1 .. (Len(envs) * sequence_length) |-> envs[((j - 1) \div sequence_length) + 1]]

seq_get_samples(call, start_idxes, envs, sequence_length) ==
    [call EXCEPT !.batch_idxes = start_idxes,
                 !.idxes = window_idxes(start_idxes, sequence_length, buffer_size),
                 !.env_idxes = seq_env_idxes(envs, sequence_length)]

seq_sample(batch_size, n_samples, sequence_length, sample_next_obs) ==
    LET batch_dim == batch_size * n_samples
        \* sample_next_obs is accepted and never read by the method
        call == [Call("seq_sample", "none") EXCEPT !.batch_dim = batch_dim,
                     !.sequence_length = sequence_length]
    IN
    /\ UNCHANGED <<buffer_size, n_envs, pos, full, buf, total, only_short>>
    /\ IF batch_dim <= 0
       THEN last' = [call EXCEPT !.err = "ValueError_batch"]
       ELSE IF is_empty(pos, full)
       THEN last' = [call EXCEPT !.err = "ValueError_empty"]
       ELSE IF batch_dim > buffer_size
       THEN last' = [call EXCEPT !.err = "ValueError_batch_dim"]
       ELSE IF too_long_not_full(pos, full, sequence_length)
       THEN last' = [call EXCEPT !.err = "ValueError_too_long"]
       ELSE IF too_long_full(full, sequence_length, buffer_size)
       THEN last' = [call EXCEPT !.err = "ValueError_too_long"]
       ELSE IF full
       THEN LET valid == valid_idxes(pos, seq_first_range_end(pos, sequence_length),
                                     buffer_size)
            IN IF too_few_starts(valid, batch_dim)
               THEN last' = [call EXCEPT !.err = "ValueError_sampleable",
                                         !.valid_idxes = valid]
               ELSE \E start_idxes \in Draws(valid, batch_dim), envs \in EnvDraws(batch_dim) :
                    last' = seq_get_samples([call EXCEPT !.valid_idxes = valid],
                                            start_idxes, envs, sequence_length)
       ELSE LET valid == Range(0, seq_first_range_end(pos, sequence_length))
            IN \E start_idxes \in Draws(valid, batch_dim), envs \in EnvDraws(batch_dim) :
               last' = seq_get_samples([call EXCEPT !.valid_idxes = valid],
                                       start_idxes, envs, sequence_length)

\* A sampling call reads pos, full and buf and writes none of them, and what
\* it returns does not depend on the call before it.  A sampling call made
\* right after another one therefore returns what it would have returned in
\* its place, and the calls below are explored from the states that __init__
\* and add leave: the states reached are those of any order of calls.
AfterWrite == last.op \in {"init", "add"}

Next ==
    \/ add_TypeError
    \/ add_RankError
    \/ \E data_len \in 0 .. MaxLen : add(data_len)
    \/ \E batch_size \in 0 .. MaxBatch, sample_next_obs \in BOOLEAN :
          AfterWrite /\ sample(batch_size, sample_next_obs)
    \/ \E batch_size \in 0 .. MaxBatch, n_samples \in 0 .. MaxNSamples,
          sequence_length \in 1 .. MaxSeqLen, sample_next_obs \in BOOLEAN :
          AfterWrite /\ seq_sample(batch_size, n_samples, sequence_length, sample_next_obs)

Spec == Init /\ [][Next]_vars

\* ---- properties ----
Newest == (pos + buffer_size - 1) % buffer_size
Stored == { buf[s] : s \in Slots } \ {0}
Samplers == {"sample", "seq_sample"}

\* C1: after add calls from the empty buffer, each with a batch shorter than
\* the capacity, every such add succeeds and the table holds exactly the
\* most recent min(total, capacity) records in ring order: slot
\* (pos - 1 - k) mod capacity holds the k-th most recent record.
C1_RingOrder ==
    only_short =>
        /\ (last.op = "add" /\ last.data_len > 0 => last.err = "none")
        /\ pos = total % buffer_size
        /\ full = (total >= buffer_size)
        /\ \A k \in 0 .. (Min(total, buffer_size) - 1) :
               buf[(pos + 2 * buffer_size - 1 - k) % buffer_size] = total - k
        /\ Stored = (total - Min(total, buffer_size) + 1) .. total

\* capacity 3 and records 1..5 added in short batches: slots [4,5,3], pos 2, full
C1_Witness ==
    /\ only_short /\ buffer_size = 3 /\ total = 5
    /\ buf = [s \in 0 .. 2 |-> IF s = 0 THEN 4 ELSE IF s = 1 THEN 5 ELSE 3]
    /\ pos = 2 /\ full /\ last.op = "add" /\ last.err = "none"

\* C2: an add of a batch with more than capacity records succeeds in every
\* reachable state and leaves the table holding the last capacity records of
\* the batch in order, the newest at slot (pos' - 1) mod capacity.
C2_OversizedAdd ==
    (last.op = "add" /\ last.data_len > buffer_size) =>
        /\ last.err = "none"
        /\ \A k \in 0 .. (buffer_size - 1) :
               buf[(pos + 2 * buffer_size - 1 - k) % buffer_size] = total - k

\* C3: full never goes back to false, and it turns true in exactly the add
\* call in which the number of records added first reaches the capacity.
C3_FullMonotonic ==
    [][ /\ (full => full')
        /\ ((~full /\ full') <=> (total < buffer_size /\ total' >= buffer_size))
        /\ ((~full /\ full') => (last'.op = "add" /\ last'.err = "none"))
        /\ (full' <=> total' >= buffer_size) ]_vars

\* the add that filled the table has just returned
C3_Witness ==
    /\ full /\ last.op = "add" /\ last.err = "none" /\ last.data_len > 0
    /\ total - last.data_len < buffer_size

\* C4: full holds exactly when every slot has been written, and while it does
\* not hold the written slots are exactly [0, pos).
C4_FullIffAllWritten ==
    /\ full <=> (\A s \in Slots : buf[s] # 0)
    /\ ~full => { s \in Slots : buf[s] # 0 } = 0 .. (pos - 1)

\* a batch of exactly capacity rows written from the middle of a table that was not full
C4_Witness ==
    /\ full /\ pos > 0 /\ last.op = "add" /\ last.err = "none"
    /\ last.data_len = buffer_size /\ \A s \in Slots : buf[s] # 0

\* C5: on a full buffer, sample with sample_next_obs never offers nor draws
\* the index (pos - 1) mod capacity.
C5_NextExcludesNewest ==
    (last.op = "sample" /\ last.sample_next_obs /\ full) =>
        /\ Newest \notin SeqToSet(last.valid_idxes)
        /\ Newest \notin SeqToSet(last.batch_idxes)

\* the case pos = 0, where pos - 1 wraps to the last slot
C5_Witness ==
    /\ last.op = "sample" /\ last.sample_next_obs /\ full /\ pos = 0
    /\ last.err = "none" /\ Len(last.batch_idxes) > 0 /\ buffer_size > 1

\* C6: on a full buffer, sample without sample_next_obs draws from every
\* index of [0, capacity) except pos.
C6_PosForbidden ==
    (last.op = "sample" /\ ~last.sample_next_obs /\ full /\ last.err = "none") =>
        SeqToSet(last.valid_idxes) = Slots \ {pos}

\* C7: on a full buffer no window drawn by the sequential sampler contains
\* the slot pos, and no start in [pos - sequence_length + 1, pos] is valid.
C7_WindowAvoidsPos ==
    (last.op = "seq_sample" /\ full /\ last.err = "none") =>
        /\ \A i \in 1 .. Len(last.idxes) :
               \A k \in 1 .. Len(last.idxes[i]) : last.idxes[i][k] # pos
        /\ \A d \in 0 .. (last.sequence_length - 1) :
               (pos + 2 * buffer_size - d) % buffer_size \notin SeqToSet(last.valid_idxes)

\* C8: the sequential sampler fails whenever there are fewer valid window
\* starts than windows asked for, full or not.
C8_TooFewStartsFails ==
    (last.op = "seq_sample" /\ Len(last.valid_idxes) < last.batch_dim) =>
        last.err # "none"

\* C9: the sequential sampler fails when the window is longer than the data:
\* not full and pos - sequence_length + 1 < 1, or non-empty and
\* sequence_length > capacity; with a legal window count the failure is the
\* too-long error.
C9_TooLongFails ==
    (/\ last.op = "seq_sample"
     /\ \/ (~full /\ pos - last.sequence_length + 1 < 1)
        \/ ((full \/ pos > 0) /\ last.sequence_length > buffer_size)) =>
        /\ last.err # "none"
        /\ (last.batch_dim \in 1 .. buffer_size /\ (full \/ pos > 0)) =>
               last.err = "ValueError_too_long"

\* a full table asked for a window longer than the table
C9_Witness ==
    /\ last.op = "seq_sample" /\ full /\ last.sequence_length > buffer_size
    /\ last.err = "ValueError_too_long"

\* C10: a sampling call with a positive sample count fails with the
\* empty-buffer error exactly when no record has been written, which is
\* exactly when full is false and pos is 0.
C10_EmptyCheck ==
    /\ (~full /\ pos = 0) <=> (total = 0)
    /\ (total = 0) <=> (\A s \in Slots : buf[s] = 0)
    /\ (last.op \in Samplers /\ last.batch_dim > 0) =>
           (last.err = "ValueError_empty" <=> (~full /\ pos = 0))

\* the sequential sampler refused on a table nothing was written to
C10_Witness ==
    /\ last.op = "seq_sample" /\ last.batch_dim > 0 /\ total = 0
    /\ last.err = "ValueError_empty"

\* C11: on a buffer that is not full, sample with sample_next_obs fails with
\* the insufficient-data error exactly when one record has been written
\* (pos = 1), and for pos >= 2 it succeeds and draws only from [0, pos - 1).
C11_NextNeedsTwo ==
    (/\ last.op = "sample" /\ last.sample_next_obs /\ last.batch_dim > 0
     /\ ~full /\ pos > 0) =>
        /\ (last.err = "RuntimeError_next" <=> pos = 1)
        /\ pos >= 2 =>
               /\ last.err = "none"
               /\ SeqToSet(last.valid_idxes) = 0 .. (pos - 2)
               /\ SeqToSet(last.batch_idxes) \subseteq 0 .. (pos - 2)

\* two records written, the only index offered is 0
C11_Witness ==
    /\ last.op = "sample" /\ last.sample_next_obs /\ ~full /\ pos = 2
    /\ last.err = "none" /\ last.batch_idxes = <<0, 0>>

\* C12: in every window returned by the sequential sampler the environment
\* index is the same for all steps of the window; two windows of one call
\* may use different environments.
C12_EnvPinned ==
    (last.op = "seq_sample" /\ last.err = "none") =>
        /\ Len(last.env_idxes) = Len(last.idxes) * last.sequence_length
        /\ \A i \in 1 .. Len(last.idxes) :
               \A k \in 1 .. last.sequence_length :
                   last.env_idxes[(i - 1) * last.sequence_length + k]
                       = last.env_idxes[(i - 1) * last.sequence_length + 1]

\* two windows of two steps each, from different environments
C12_Witness ==
    /\ last.op = "seq_sample" /\ last.err = "none" /\ last.sequence_length = 2
    /\ Len(last.idxes) = 2 /\ last.env_idxes = <<0, 0, 1, 1>>

\* C13: every successful add of data_len rows sets pos to
\* (pos + data_len) mod capacity, and pos stays within [0, capacity).
C13_CursorAdvance ==
    [][ /\ pos' \in 0 .. (buffer_size - 1)
        /\ (last'.op = "add" /\ last'.err = "none") =>
               pos' = (pos + last'.data_len) % buffer_size ]_vars

\* an add of two rows that wrapped from slot 2 to slot 1 of a table of 3
C13_Witness ==
    /\ last.op = "add" /\ last.err = "none" /\ last.data_len = 2
    /\ buffer_size = 3 /\ pos = 1 /\ full

\* C14: neither sampler changes pos, full or a slot of the table, whether the
\* call returns or raises.
C14_SamplersReadOnly ==
    [][ last'.op \in Samplers => (pos' = pos /\ full' = full /\ buf' = buf) ]_vars

\* a sample with the companion read has returned on a table that has wrapped
C14_Witness ==
    /\ last.op = "sample" /\ last.sample_next_obs /\ last.err = "none"
    /\ full /\ total > buffer_size

\* C15: in every add the number of destination indices equals the number of
\* rows of the batch that is written.
C15_OneDestinationPerRow ==
    last.op = "add" => last.n_idxes = last.n_rows

\* C16: every window the sequential sampler draws lies on written slots, each
\* step of the window goes from a record to the record added right after it,
\* and no step goes from the newest record (slot pos - 1) to the oldest (pos).
C16_WindowsContiguous ==
    (last.op = "seq_sample" /\ last.err = "none") =>
        \A i \in 1 .. Len(last.idxes) :
            /\ \A k \in 1 .. last.sequence_length : buf[last.idxes[i][k]] # 0
            /\ \A k \in 1 .. (last.sequence_length - 1) :
                   /\ buf[last.idxes[i][k + 1]] = buf[last.idxes[i][k]] + 1
                   /\ ~(last.idxes[i][k] = Newest /\ last.idxes[i][k + 1] = pos)

\* C17: every index sample draws names a written slot, and with
\* sample_next_obs the companion slot (i + 1) mod capacity holds the record
\* added right after the record in slot i.
C17_SampleReadsFresh ==
    (last.op = "sample" /\ last.err = "none") =>
        /\ \A j \in 1 .. Len(last.batch_idxes) : buf[last.batch_idxes[j]] # 0
        /\ \A j \in 1 .. Len(last.next_idxes) :
               /\ last.next_idxes[j] = (last.batch_idxes[j] + 1) % buffer_size
               /\ buf[last.next_idxes[j]] = buf[last.batch_idxes[j]] + 1

C19_ValidNonEmpty ==
    (last.op \in Samplers /\ last.err \in {"none", "RuntimeError_randint"}) =>
        Len(last.valid_idxes) > 0

\* C20: an add call that raises leaves pos and full as they were.
C20_FailedAddKeepsCursor ==
    [][ (last'.op = "add" /\ last'.err # "none") => (pos' = pos /\ full' = full) ]_vars

\* the write raised on a full table whose cursor is not at slot 0
C20_Witness ==
    /\ last.op = "add" /\ last.err = "RuntimeError_write" /\ full /\ pos > 0
    /\ last.n_idxes # last.n_rows

====
